---------------------------- MODULE Spec2Model ----------------------------
(***************************************************************************)
(* Model of src/publisher/publisher.py: the Flask order-intake service.    *)
(*                                                                         *)
(*   POST /                submit_order : uuid4, form parsing, validation, *)
(*                         DynamoDB put_item, SNS publish, redirect        *)
(*   GET  /                submit_order : prepopulated intake form         *)
(*   GET  /request/<uuid>  request_page : DynamoDB get_item, render        *)
(*                                                                         *)
(* Requests are served concurrently.  A handler's local computation is     *)
(* atomic; handlers interleave at their calls to the table and the topic.  *)
(* Amounts are written in hundredths; texts that are matched character by   *)
(* character (the URL segment) are tuples of one-character strings.        *)
(***************************************************************************)
EXTENDS Integers, Sequences, FiniteSets, TLC

\* Number of requests served in one behaviour.
NumReqs == 2

Reqs == 1..NumReqs

VARIABLES
    pc,         \* pc[r]: where request r stands in its handler
    request,    \* request[r]: method, rule, URL segment and form of request r
    locals,     \* locals[r]: the handler's bound local variables
    response,   \* response[r]: the response returned for r
    db_table,   \* the DynamoDB table: id -> Item
    topic,      \* the messages published to the SNS topic
    calls,      \* calls[r]: the backend calls made for r and how each ended
    issued      \* the identifiers uuid4 has returned so far

vars == <<pc, request, locals, response, db_table, topic, calls, issued>>

-----------------------------------------------------------------------------
(* Texts                                                                   *)

Rep(c, n) == [i \in 1..n |-> c]

\* The textual form str(uuid.uuid4()) has: 8-4-4-4-12 lower-case hex digits,
\* version digit 4 and a variant digit among 8, 9, a, b.
UUIDText(c, v) ==
    Rep(c, 8) \o <<"-">> \o Rep(c, 4) \o <<"-", "4">> \o Rep(c, 3)
        \o <<"-", v>> \o Rep(c, 3) \o <<"-">> \o Rep(c, 12)

U1 == UUIDText("a", "8")
U2 == UUIDText("b", "9")
U3 == UUIDText("c", "a")

\* The values uuid4 draws from.
UUIDPool == {U1, U2, U3}

LowerHex == {"0", "1", "2", "3", "4", "5", "6", "7", "8", "9",
             "a", "b", "c", "d", "e", "f"}
UpperHex == {"A", "B", "C", "D", "E", "F"}

ToUpper(c) ==
    CASE c = "a" -> "A" [] c = "b" -> "B" [] c = "c" -> "C"
      [] c = "d" -> "D" [] c = "e" -> "E" [] c = "f" -> "F"
      [] OTHER -> c

ToLower(c) ==
    CASE c = "A" -> "a" [] c = "B" -> "b" [] c = "C" -> "c"
      [] c = "D" -> "d" [] c = "E" -> "e" [] c = "F" -> "f"
      [] OTHER -> c

Upper(s) == [i \in 1..Len(s) |-> ToUpper(s[i])]

NilUUID == Rep("0", 8) \o <<"-">> \o Rep("0", 4) \o <<"-">> \o Rep("0", 4)
               \o <<"-">> \o Rep("0", 4) \o <<"-">> \o Rep("0", 12)

NotAValidId == <<"n", "o", "t", "-", "a", "-", "v", "a", "l", "i", "d", "-", "i", "d">>

\* 36 characters in the 8-4-4-4-12 layout, one of them no hex digit.
NonHexId == [U1 EXCEPT ![1] = "g"]

\* The URL segments requested under /request/.
Segments == {U1, Upper(U1), NilUUID, NotAValidId, NonHexId}

-----------------------------------------------------------------------------
(* Values                                                                  *)

\* A Python float is written as its number of hundredths.

\* amount < 0 (line 53).
Negative(a) == a < 0

\* The texts float() converts (line 51), and what it returns for them; for
\* any other text it raises a ValueError.
Parses(text) == text \in {"42.50", "0", "-5.0"}

float(text) ==
    CASE text = "42.50" -> 4250
      [] text = "0"     -> 0
      [] text = "-5.0"  -> 0 - 500

\* The forms posted to "/".
Forms ==
    { [customer |-> "Jane Doe", amount |-> "42.50"],
      [customer |-> "Jane Doe", amount |-> "0"],
      [customer |-> "Jane Doe", amount |-> "-5.0"],
      [customer |-> "Jane Doe", amount |-> "abc"],
      [customer |-> "",         amount |-> "42.50"],
      [customer |-> "",         amount |-> "-5.0"],
      [amount   |-> "42.50"] }

\* The sample values GET / prepopulates the form with (lines 94-95).
SampleNames == {"Jane Doe", "John Doe"}
SampleAmounts == {4250}

\* How a call to the table or to the topic ends: it returns, or raises an
\* exception that is or is not a ValueError.
Outcomes == {"ok", "ValueError", "Exception"}

\* One call to a backend, as a spy on the backend records it.
Call(op, outcome) == [op |-> op, outcome |-> outcome]

BackendErrorText == "backend error detail"
GenericMessage == "An error occurred. Please try again later."
NegativeMessage == "Amount must be a positive number."
\* str(ve) of the ValueError float() raises for a text (line 51).
FloatMessage(text) == "could not convert string to float: '" \o text \o "'"
LookupFailedMessage == "Failed to retrieve order. Please try again later."

-----------------------------------------------------------------------------
(* Responses                                                               *)

NoContext == [k \in {} |-> ""]

NoResponse == [status |-> 0, view |-> "none", ctx |-> NoContext]

\* The response Flask makes of an exception that leaves the handler.
InternalServerError == [status |-> 500, view |-> "unhandled", ctx |-> NoContext]

\* The response Flask makes of a URL no rule matches.
RoutingNotFound == [status |-> 404, view |-> "no route", ctx |-> NoContext]

\* redirect(url_for('request_page', request_id=order_id)), line 83.
Redirect(order_id) ==
    [status |-> 302, view |-> "redirect", ctx |-> [request_id |-> order_id]]

\* render_template('index.html', error=..., customer=customer, amount=amount)
\* in an except clause (lines 87, 91): reading a local that was never bound
\* raises UnboundLocalError, which leaves the handler.
RenderError(loc, error) ==
    IF {"customer", "amount"} \subseteq DOMAIN loc
    THEN [status |-> 200, view |-> "index.html",
          ctx |-> [error |-> error, customer |-> loc.customer,
                   amount |-> loc.amount]]
    ELSE InternalServerError

\* The except clauses of submit_order (lines 85-91).
Except(loc, kind, text) ==
    IF kind = "ValueError"
    THEN RenderError(loc, text)
    ELSE RenderError(loc, GenericMessage)

-----------------------------------------------------------------------------
(* submit_order                                                            *)

\* Variant: an identifier generator that can return a value again.
uuid4Repeating == UUIDPool

\* uuid.uuid4() (line 47): a value it has not returned before.
uuid4 == UUIDPool \ issued

\* Lines 47-54: the identifier, the two form fields, the conversion and the
\* check of the amount.  A form field that is missing raises a KeyError,
\* which is no ValueError.
ReadForm(form, order_id) ==
    LET l1 == ("order_id" :> order_id) IN
    IF "customer" \notin DOMAIN form
    THEN [locals |-> l1, raised |-> "Exception", text |-> "customer"]
    ELSE
    LET l2 == l1 @@ ("customer" :> form.customer) IN
    IF "amount" \notin DOMAIN form
    THEN [locals |-> l2, raised |-> "Exception", text |-> "amount"]
    ELSE IF ~Parses(form.amount)
    THEN [locals |-> l2, raised |-> "ValueError", text |-> FloatMessage(form.amount)]
    ELSE
    LET l3 == l2 @@ ("amount" :> float(form.amount)) IN
    IF Negative(l3.amount)
    THEN [locals |-> l3, raised |-> "ValueError", text |-> NegativeMessage]
    ELSE [locals |-> l3, raised |-> "ok", text |-> ""]

\* Variant: the amount is stored without its fraction.
ItemTruncated(order_id, customer, amount) ==
    [id |-> order_id, customer |-> customer,
     amount |-> (amount \div 100) * 100]

\* The Item put_item is given (lines 58-62).
Item(order_id, customer, amount) ==
    [id |-> order_id, customer |-> customer, amount |-> amount]

\* The Message publish is given (lines 69-72).
Message(customer, amount) == [customer |-> customer, amount |-> amount]

\* Variant: a write that drops the records under other keys.
PutDroppingOthers(table, item) == [k \in {item.id} |-> item]

\* The table after put_item of an item: the item replaces what its key held.
Put(table, item) ==
    [k \in DOMAIN table \cup {item.id} |->
        IF k = item.id THEN item ELSE table[k]]

\* Variant: the message is published before the item is written.
SubmitOrderStepsSwapped == <<"publish", "put_item">>

\* Variant: the redirect follows the write, and nothing is published.
SubmitOrderStepsNoPublish == <<"put_item">>

\* The backend calls of submit_order, in the order the handler makes them
\* (lines 57 and 67); the redirect of line 83 follows the last one.
SubmitOrderSteps == <<"put_item", "publish">>

After(step) ==
    LET i == CHOOSE j \in 1..Len(SubmitOrderSteps) : SubmitOrderSteps[j] = step
    IN  IF i < Len(SubmitOrderSteps) THEN SubmitOrderSteps[i + 1] ELSE "redirect"

\* The handler goes on after a call that returned: to its next call, or to
\* the redirect that ends it.
GoOn(r, step) ==
    IF After(step) = "redirect"
    THEN /\ pc' = [pc EXCEPT ![r] = "done"]
         /\ response' = [response EXCEPT ![r] = Redirect(locals[r].order_id)]
    ELSE /\ pc' = [pc EXCEPT ![r] = After(step)]
         /\ UNCHANGED response

\* The handler ends in an except clause.
Fail(r, loc, kind, text) ==
    /\ pc' = [pc EXCEPT ![r] = "done"]
    /\ response' = [response EXCEPT ![r] = Except(loc, kind, text)]

\* GET /: the form, prepopulated (lines 93-97).
SubmitOrderGet(r, name, amount) ==
    /\ pc[r] = "idle"
    /\ request' = [request EXCEPT ![r] =
                      [method |-> "GET", rule |-> "/", segment |-> <<>>,
                       form |-> NoContext]]
    /\ pc' = [pc EXCEPT ![r] = "done"]
    /\ response' = [response EXCEPT ![r] =
                      [status |-> 200, view |-> "index.html",
                       ctx |-> [customer |-> name, amount |-> amount]]]
    /\ UNCHANGED <<locals, db_table, topic, calls, issued>>

\* POST /: lines 44-54, and the except clause when one of them raises.
SubmitOrderPost(r, form, order_id) ==
    /\ pc[r] = "idle"
    /\ order_id \in uuid4
    /\ request' = [request EXCEPT ![r] =
                      [method |-> "POST", rule |-> "/", segment |-> <<>>,
                       form |-> form]]
    /\ issued' = issued \cup {order_id}
    /\ LET read == ReadForm(form, order_id) IN
       /\ locals' = [locals EXCEPT ![r] = read.locals]
       /\ IF read.raised = "ok"
          THEN /\ pc' = [pc EXCEPT ![r] = SubmitOrderSteps[1]]
               /\ UNCHANGED response
          ELSE Fail(r, read.locals, read.raised, read.text)
    /\ UNCHANGED <<db_table, topic, calls>>

\* Variant: a write that raised is tried again, twice at most.
PutItemRetrying(r, outcome) ==
    /\ pc[r] = "put_item"
    /\ calls' = [calls EXCEPT ![r] = Append(@, Call("put_item", outcome))]
    /\ IF outcome = "ok"
       THEN /\ db_table' = Put(db_table, Item(locals[r].order_id,
                                              locals[r].customer,
                                              locals[r].amount))
            /\ GoOn(r, "put_item")
       ELSE /\ UNCHANGED db_table
            /\ IF Len(calls[r]) < 2
               THEN UNCHANGED <<pc, response>>
               ELSE Fail(r, locals[r], outcome, BackendErrorText)
    /\ UNCHANGED <<request, locals, topic, issued>>

\* db_table.put_item (lines 57-64): the call stores the item and returns,
\* or raises and stores nothing.
PutItem(r, outcome) ==
    /\ pc[r] = "put_item"
    /\ calls' = [calls EXCEPT ![r] = Append(@, Call("put_item", outcome))]
    /\ IF outcome = "ok"
       THEN /\ db_table' = Put(db_table, Item(locals[r].order_id,
                                              locals[r].customer,
                                              locals[r].amount))
            /\ GoOn(r, "put_item")
       ELSE /\ UNCHANGED db_table
            /\ Fail(r, locals[r], outcome, BackendErrorText)
    /\ UNCHANGED <<request, locals, topic, issued>>

\* Variant: a failed publish removes the item the request wrote.
PublishRollingBack(r, outcome) ==
    /\ pc[r] = "publish"
    /\ calls' = [calls EXCEPT ![r] = Append(@, Call("publish", outcome))]
    /\ IF outcome = "ok"
       THEN /\ topic' = topic \cup {Message(locals[r].customer, locals[r].amount)}
            /\ GoOn(r, "publish")
            /\ UNCHANGED db_table
       ELSE /\ UNCHANGED topic
            /\ db_table' = [k \in DOMAIN db_table \ {locals[r].order_id} |->
                               db_table[k]]
            /\ Fail(r, locals[r], outcome, BackendErrorText)
    /\ UNCHANGED <<request, locals, issued>>

\* Variant: a publish waits while another request stands at its publish.
PublishAfterOthers(r, outcome) ==
    /\ pc[r] = "publish"
    /\ \A q \in Reqs \ {r} : pc[q] # "publish"
    /\ calls' = [calls EXCEPT ![r] = Append(@, Call("publish", outcome))]
    /\ IF outcome = "ok"
       THEN /\ topic' = topic \cup {Message(locals[r].customer, locals[r].amount)}
            /\ GoOn(r, "publish")
       ELSE /\ UNCHANGED topic
            /\ Fail(r, locals[r], outcome, BackendErrorText)
    /\ UNCHANGED <<request, locals, db_table, issued>>

\* sns_client.publish (lines 67-80): the call delivers the message and
\* returns, or raises and delivers nothing.
Publish(r, outcome) ==
    /\ pc[r] = "publish"
    /\ calls' = [calls EXCEPT ![r] = Append(@, Call("publish", outcome))]
    /\ IF outcome = "ok"
       THEN /\ topic' = topic \cup {Message(locals[r].customer, locals[r].amount)}
            /\ GoOn(r, "publish")
       ELSE /\ UNCHANGED topic
            /\ Fail(r, locals[r], outcome, BackendErrorText)
    /\ UNCHANGED <<request, locals, db_table, issued>>

-----------------------------------------------------------------------------
(* request_page                                                            *)

\* The positions of the hyphens in the 8-4-4-4-12 layout.
Hyphens == {9, 14, 19, 24}

\* Variant: a converter that accepts any segment.
MatchesAnything(segment) == TRUE

\* The <uuid:request_id> converter of the rule (line 100): the segment is
\* 36 characters, hyphens at the four positions and hex digits of either
\* case elsewhere.  Any other segment matches no rule.
MatchesUUID(segment) ==
    /\ Len(segment) = 36
    /\ \A i \in 1..Len(segment) :
          IF i \in Hyphens
          THEN segment[i] = "-"
          ELSE segment[i] \in LowerHex \cup UpperHex

\* str(request_id) (line 104): the converter makes a uuid.UUID of the
\* segment, and its text is in lower case.
StrUUID(segment) == [i \in 1..Len(segment) |-> ToLower(segment[i])]

\* Variant: a read that falls back to some item when the key is absent.
GetItemAny(table, key) ==
    IF key \in DOMAIN table THEN [Item |-> table[key]]
    ELSE IF DOMAIN table # {} THEN [Item |-> table[CHOOSE k \in DOMAIN table : TRUE]]
    ELSE NoContext

\* What get_item returns (line 103): a dict with the key 'Item' when the
\* table holds the key.
GetItem(table, key) ==
    IF key \in DOMAIN table THEN [Item |-> table[key]] ELSE NoContext

\* Variant: a read that raised is answered like a missing record.
RequestPageResponseMissing(request_id, outcome, got) ==
    IF outcome = "ok" /\ "Item" \in DOMAIN got
    THEN [status |-> 200, view |-> "order.html",
          ctx |-> [response |-> got.Item]]
    ELSE [status |-> 404, view |-> "text",
          ctx |-> [message |-> "Order with ID {request_id} not found.",
                   request_id |-> request_id]]

\* Lines 107-114: the response made of what get_item returned or raised.
RequestPageResponse(request_id, outcome, got) ==
    IF outcome # "ok"
    THEN [status |-> 500, view |-> "text",
          ctx |-> [message |-> LookupFailedMessage]]
    ELSE IF "Item" \notin DOMAIN got
    THEN [status |-> 404, view |-> "text",
          ctx |-> [message |-> "Order with ID {request_id} not found.",
                   request_id |-> request_id]]
    ELSE [status |-> 200, view |-> "order.html",
          ctx |-> [response |-> got.Item]]

\* GET /request/<segment>: routing, then lines 101-114.
RequestPage(r, segment, outcome) ==
    /\ pc[r] = "idle"
    /\ request' = [request EXCEPT ![r] =
                      [method |-> "GET", rule |-> "/request", segment |-> segment,
                       form |-> NoContext]]
    /\ pc' = [pc EXCEPT ![r] = "done"]
    /\ IF MatchesUUID(segment)
       THEN LET request_id == StrUUID(segment) IN
            /\ locals' = [locals EXCEPT ![r] = ("request_id" :> request_id)]
            /\ calls' = [calls EXCEPT ![r] = Append(@, Call("get_item", outcome))]
            /\ response' = [response EXCEPT ![r] =
                  RequestPageResponse(request_id, outcome,
                                      GetItem(db_table, request_id))]
       ELSE /\ response' = [response EXCEPT ![r] = RoutingNotFound]
            /\ UNCHANGED <<locals, calls>>
    /\ UNCHANGED <<db_table, topic, issued>>

-----------------------------------------------------------------------------
(* The service                                                             *)

NoRequest == [method |-> "none", rule |-> "", segment |-> <<>>, form |-> NoContext]

Init ==
    /\ pc = [r \in Reqs |-> "idle"]
    /\ request = [r \in Reqs |-> NoRequest]
    /\ locals = [r \in Reqs |-> NoContext]
    /\ response = [r \in Reqs |-> NoResponse]
    /\ db_table = [k \in {} |-> NoContext]
    /\ topic = {}
    /\ calls = [r \in Reqs |-> <<>>]
    /\ issued = {}

Next ==
    \E r \in Reqs :
        \/ \E name \in SampleNames, amount \in SampleAmounts :
              SubmitOrderGet(r, name, amount)
        \/ \E form \in Forms, order_id \in UUIDPool :
              SubmitOrderPost(r, form, order_id)
        \/ \E outcome \in Outcomes : PutItem(r, outcome)
        \/ \E outcome \in Outcomes : Publish(r, outcome)
        \/ \E segment \in Segments, outcome \in Outcomes :
              RequestPage(r, segment, outcome)

Spec == Init /\ [][Next]_vars

\* The backend call request r stands at ends, one way or the other.
PutItemStep(r) == \E outcome \in Outcomes : PutItem(r, outcome)
PublishStep(r) == \E outcome \in Outcomes : Publish(r, outcome)

\* Every backend call eventually returns or raises, and every request
\* that can take a step is eventually scheduled.
Fairness ==
    \A r \in Reqs : WF_vars(PutItemStep(r)) /\ WF_vars(PublishStep(r))

FairSpec == Spec /\ Fairness

-----------------------------------------------------------------------------
(* Vocabulary of the properties                                            *)

\* An amount, in hundredths, that is >= 0.
NonNegative(a) == a >= 0

IsPost(r) == request[r].method = "POST"
IsLookup(r) == request[r].rule = "/request"
Done(r) == pc[r] = "done"

Made(r, op) == \E i \in DOMAIN calls[r] : calls[r][i].op = op
Returned(r, op) == \E i \in DOMAIN calls[r] : calls[r][i] = Call(op, "ok")
Raised(r, op) ==
    \E i \in DOMAIN calls[r] : calls[r][i].op = op /\ calls[r][i].outcome # "ok"

\* The submission carries both fields and an amount that is a number.
HasFields(r) ==
    /\ IsPost(r)
    /\ {"customer", "amount"} \subseteq DOMAIN request[r].form
    /\ Parses(request[r].form.amount)

SubmittedCustomer(r) == request[r].form.customer
SubmittedAmount(r) == float(request[r].form.amount)

ValidSubmission(r) ==
    /\ HasFields(r)
    /\ SubmittedCustomer(r) # ""
    /\ NonNegative(SubmittedAmount(r))

Redirected(r) == Done(r) /\ response[r].view = "redirect"

\* The intake view, re-rendered with an error message.
ErrorView(r) ==
    /\ Done(r)
    /\ response[r].view = "index.html"
    /\ "error" \in DOMAIN response[r].ctx

\* The error view with a reason about the input.
ValidationErrorOutcome(r) ==
    /\ ErrorView(r)
    /\ response[r].ctx.error \in
          {NegativeMessage} \cup {FloatMessage(f.amount) : f \in Forms}

\* The error view with the generic retry message.
PersistenceErrorOutcome(r) ==
    ErrorView(r) /\ response[r].ctx.error = GenericMessage

\* What GET /request/<id> answers in the current state when the table
\* answers the read.
LookupOf(id) ==
    RequestPageResponse(StrUUID(id), "ok", GetItem(db_table, StrUUID(id)))

\* A record with the customer and the amount of submission r.
HoldsSubmission(item, r) ==
    /\ item.customer = SubmittedCustomer(r)
    /\ item.amount = SubmittedAmount(r)

\* Request q looked up the identifier of submission r and the table answered.
LookedUp(q, r) ==
    /\ IsLookup(q)
    /\ MatchesUUID(request[q].segment)
    /\ StrUUID(request[q].segment) = locals[r].order_id
    /\ Returned(q, "get_item")

-----------------------------------------------------------------------------
(* Properties                                                              *)

\* C1: a submission with a non-empty customer and an amount >= 0 whose write
\* and publish both returned ends in a redirect to an identifier that the
\* lookup route accepts, and a lookup of that identifier answers 200 with a
\* record holding exactly the submitted customer and amount.
C1_SubmitThenLookup ==
    \A r \in Reqs :
        (ValidSubmission(r) /\ Returned(r, "put_item") /\ Returned(r, "publish"))
        => /\ Redirected(r)
           /\ LET id == response[r].ctx.request_id IN
              /\ id = locals[r].order_id
              /\ MatchesUUID(id)
              /\ LookupOf(id).status = 200
              /\ HoldsSubmission(LookupOf(id).ctx.response, r)
              /\ \A q \in Reqs :
                    (LookedUp(q, r) /\ response[q].status # 404)
                    => /\ response[q].status = 200
                       /\ HoldsSubmission(response[q].ctx.response, r)

\* A submission of amount 0 was redirected and a lookup of its identifier
\* answered 200.
C1_Witness ==
    \E r, q \in Reqs :
        /\ ValidSubmission(r)
        /\ request[r].form.amount = "0"
        /\ Redirected(r)
        /\ LookedUp(q, r)
        /\ response[q].status = 200

\* C2: a submission with an amount < 0 or an empty customer ends in the
\* ValidationError outcome and makes no call to the table or the topic.
C2_InvalidRejected ==
    \A r \in Reqs :
        (/\ HasFields(r)
         /\ (SubmittedCustomer(r) = "" \/ Negative(SubmittedAmount(r))))
        => /\ calls[r] = <<>>
           /\ Done(r) => ValidationErrorOutcome(r)

\* C3: every record in the table has a non-empty customer and an
\* amount >= 0.
C3_StoredOrdersValid ==
    \A k \in DOMAIN db_table :
        /\ db_table[k].customer # ""
        /\ NonNegative(db_table[k].amount)

\* C4: a request calls publish only after its put_item returned, and every
\* published message has a record in the table with the same customer and
\* amount.
C4_PublishAfterWrite ==
    /\ \A r \in Reqs : \A i \in DOMAIN calls[r] :
          calls[r][i].op = "publish"
          => \E j \in 1..(i - 1) : calls[r][j] = Call("put_item", "ok")
    /\ \A m \in topic : \E k \in DOMAIN db_table :
          /\ db_table[k].customer = m.customer
          /\ db_table[k].amount = m.amount

\* A message was published while another request had written and not yet
\* published.
C4_Witness ==
    \E r, q \in Reqs :
        /\ r # q
        /\ Returned(r, "publish")
        /\ Message(SubmittedCustomer(r), SubmittedAmount(r)) \in topic
        /\ pc[q] = "publish"

\* C5: when the put_item of a submission raises, the submission ends in the
\* PersistenceError outcome, calls publish never, and the table holds no
\* record under its identifier.
C5_WriteFailure ==
    \A r \in Reqs :
        Raised(r, "put_item")
        => /\ PersistenceErrorOutcome(r)
           /\ ~Made(r, "publish")
           /\ locals[r].order_id \notin DOMAIN db_table

\* C6: when the put_item of a submission returned and its publish raised,
\* the record stays in the table under the identifier the submission
\* generated, and a lookup of that identifier answers 200 with the
\* submitted customer and amount.
C6_NoRollback ==
    \A r \in Reqs :
        (Returned(r, "put_item") /\ Raised(r, "publish"))
        => LET id == locals[r].order_id IN
           /\ id \in DOMAIN db_table
           /\ db_table[id].id = id
           /\ HoldsSubmission(db_table[id], r)
           /\ MatchesUUID(id)
           /\ LookupOf(id).status = 200
           /\ HoldsSubmission(LookupOf(id).ctx.response, r)

\* The publish of a submission raised after its write, and a lookup found
\* the record.
C6_Witness ==
    \E r, q \in Reqs :
        /\ Returned(r, "put_item")
        /\ Raised(r, "publish")
        /\ Done(r)
        /\ LookedUp(q, r)
        /\ response[q].status = 200

\* C7: a submission whose put_item returned and whose publish raised is not
\* answered with the error view.
C7_PersistedNotReportedFailed ==
    \A r \in Reqs :
        (Returned(r, "put_item") /\ Raised(r, "publish")) => ~ErrorView(r)

\* C8: two submissions with the same customer and amount get distinct
\* identifiers, and once both writes returned the table holds a record for
\* each under its own identifier with the submitted data.
C8_ConcurrentSubmits ==
    \A r, q \in Reqs :
        (r # q /\ IsPost(r) /\ IsPost(q) /\ request[r].form = request[q].form)
        => /\ locals[r].order_id # locals[q].order_id
           /\ (Returned(r, "put_item") /\ Returned(q, "put_item"))
              => \A x \in {r, q} :
                    LET id == locals[x].order_id IN
                    /\ id \in DOMAIN db_table
                    /\ db_table[id].id = id
                    /\ HoldsSubmission(db_table[id], x)
                    /\ LookupOf(id).status = 200
                    /\ LookupOf(id).ctx.response = db_table[id]

\* Two submissions of the same form ran their writes while both were in
\* progress, and both completed.
C8_Witness ==
    \E r, q \in Reqs :
        /\ r # q
        /\ IsPost(r) /\ IsPost(q)
        /\ request[r].form = request[q].form
        /\ Redirected(r) /\ Redirected(q)
        /\ Cardinality(DOMAIN db_table) = 2

\* C9: a lookup of a well-formed identifier that the table does not hold,
\* once the table has answered the read, is answered 404 with a message
\* naming the identifier; a lookup answered with a record got the record
\* stored under the identifier it asked for.
C9_LookupMiss ==
    \A q \in Reqs :
        (IsLookup(q) /\ MatchesUUID(request[q].segment)
                     /\ Returned(q, "get_item"))
        => LET id == StrUUID(request[q].segment) IN
           /\ id \notin DOMAIN db_table
              => /\ response[q].status = 404
                 /\ response[q].ctx.request_id = id
           /\ response[q].status = 200
              => /\ id \in DOMAIN db_table
                 /\ response[q].ctx.response = db_table[id]
           /\ response[q].status \in {200, 404}

\* A lookup of an identifier never issued was answered 404 while the table
\* held another order.
C9_Witness ==
    \E q \in Reqs :
        /\ IsLookup(q)
        /\ request[q].segment = NilUUID
        /\ response[q].status = 404
        /\ response[q].ctx.request_id = NilUUID
        /\ DOMAIN db_table # {}

\* The segments that are not in the 8-4-4-4-12 hex form.
Malformed == {NotAValidId, NonHexId}

\* C10: a lookup of a malformed identifier is rejected before the handler
\* runs and the table is never read for it.
C10_MalformedLookup ==
    \A q \in Reqs :
        (IsLookup(q) /\ request[q].segment \in Malformed)
        => /\ Done(q)
           /\ response[q] = RoutingNotFound
           /\ calls[q] = <<>>

\* A malformed lookup was answered while the table held an order.
C10_Witness ==
    \E q \in Reqs :
        /\ IsLookup(q)
        /\ request[q].segment = NotAValidId
        /\ Done(q)
        /\ DOMAIN db_table # {}

\* C11: every POST that fails is answered with the intake view, status 200,
\* an error message and the submitted customer and amount.
C11_FailingPostRerendered ==
    \A r \in Reqs :
        (IsPost(r) /\ Done(r) /\ ~Redirected(r))
        => /\ response[r].status = 200
           /\ ErrorView(r)
           /\ \A f \in DOMAIN request[r].form :
                 f \in DOMAIN response[r].ctx

\* C12: a submission that failed because put_item or publish raised is
\* answered with the generic retry message, never with the text of the
\* exception.
C12_GenericMessageOnly ==
    \A r \in Reqs :
        (Raised(r, "put_item") \/ Raised(r, "publish"))
        => /\ ErrorView(r)
           /\ response[r].ctx.error = GenericMessage
           /\ response[r].ctx.error # BackendErrorText

\* C13: a lookup whose get_item raised is answered 500 with the generic
\* message; a lookup answered 404 by the handler had its read answered, and
\* a lookup whose read was answered is never answered 500.
C13_LookupBackendFailure ==
    \A q \in Reqs :
        (IsLookup(q) /\ MatchesUUID(request[q].segment))
        => /\ Raised(q, "get_item")
              => /\ response[q].status = 500
                 /\ response[q].ctx = [message |-> LookupFailedMessage]
           /\ response[q].status = 404 => Returned(q, "get_item")
           /\ Returned(q, "get_item") => response[q].status # 500

\* The read of one lookup raised while the read of another lookup of the
\* same identifier found no record.
C13_Witness ==
    \E q, p \in Reqs :
        /\ IsLookup(q) /\ IsLookup(p)
        /\ request[q].segment = request[p].segment
        /\ Raised(q, "get_item")
        /\ response[q].status = 500
        /\ Returned(p, "get_item")
        /\ response[p].status = 404

\* The calls to op in the call log of request r.
CallsTo(r, op) == {i \in DOMAIN calls[r] : calls[r][i].op = op}

\* C14: a submission calls put_item at most once and publish at most once
\* whatever its outcome, and exactly once each, both returning, when it is
\* redirected; a call that raised is not made again.
C14_NoRetries ==
    \A r \in Reqs :
        /\ Cardinality(CallsTo(r, "put_item")) <= 1
        /\ Cardinality(CallsTo(r, "publish")) <= 1
        /\ Redirected(r)
           => calls[r] = <<Call("put_item", "ok"), Call("publish", "ok")>>
        /\ (Raised(r, "put_item") \/ Raised(r, "publish"))
           => /\ Done(r)
              /\ calls[r][Len(calls[r])].outcome # "ok"

\* One submission ended after its write raised, with that one call made,
\* and another ended after its publish raised, with two calls made.
C14_Witness ==
    \E r, q \in Reqs :
        /\ Done(r) /\ Raised(r, "put_item") /\ Len(calls[r]) = 1
        /\ Done(q) /\ Raised(q, "publish") /\ Len(calls[q]) = 2

\* C15: every step keeps each record of the table as it is, adds at most
\* one record, and only under the identifier of the submission that is at
\* its write; the step that serves a lookup leaves the table and the topic
\* unchanged.
C15_RecordsKept ==
    [][ /\ \A k \in DOMAIN db_table :
              k \in DOMAIN db_table' /\ db_table'[k] = db_table[k]
        /\ Cardinality(DOMAIN db_table' \ DOMAIN db_table) <= 1
        /\ \A k \in DOMAIN db_table' \ DOMAIN db_table :
              \E r \in Reqs : /\ pc[r] = "put_item"
                              /\ locals[r].order_id = k
                              /\ db_table'[k].id = k
        /\ \A q \in Reqs :
              (~IsLookup(q) /\ IsLookup(q)')
              => UNCHANGED <<db_table, topic>> ]_vars

\* A second submission wrote its record while the table held the record of
\* the first, and both records are in the table.
C15_Witness ==
    \E r, q \in Reqs :
        /\ r # q
        /\ Returned(r, "put_item") /\ Returned(q, "put_item")
        /\ {locals[r].order_id, locals[q].order_id} = DOMAIN db_table
        /\ Cardinality(DOMAIN db_table) = 2

\* C16: when a POST is answered with a redirect, the table holds a record
\* under exactly the identifier of the redirect with the submitted customer
\* and amount, written by that request, and a message with that customer
\* and amount is on the topic.
C16_RedirectMeansStoredAndPublished ==
    \A r \in Reqs :
        (IsPost(r) /\ response[r].view = "redirect")
        => LET id == response[r].ctx.request_id IN
           /\ Returned(r, "put_item")
           /\ id \in DOMAIN db_table
           /\ db_table[id].id = id
           /\ HoldsSubmission(db_table[id], r)
           /\ Returned(r, "publish")
           /\ Message(SubmittedCustomer(r), SubmittedAmount(r)) \in topic

\* A POST was redirected while the table also held the record of another
\* submission with other data.
C16_Witness ==
    \E r, q \in Reqs :
        /\ r # q
        /\ Redirected(r)
        /\ Returned(q, "put_item")
        /\ request[q].form # request[r].form

\* C17: under FairSpec every request that has begun reaches its response:
\* from some point on no request stands inside its handler, a request that
\* is done has a response and keeps it, and a request that stands at a
\* backend call can always take that step, whatever the other requests are
\* doing.
C17_RequestsTerminate ==
    /\ <>[](\A r \in Reqs : pc[r] \in {"idle", "done"})
    /\ [][\A r \in Reqs :
            pc[r] = "done" => pc'[r] = "done" /\ response'[r] = response[r]]_vars
    /\ [](\A r \in Reqs :
            /\ pc[r] = "done" <=> response[r].status # 0
            /\ pc[r] = "put_item" => ENABLED PutItemStep(r)
            /\ pc[r] = "publish" => ENABLED PublishStep(r)
            /\ pc[r] \in {"idle", "put_item", "publish", "done"})

\* One submission made both its calls and was answered while another stood
\* at its write.
C17_Witness ==
    \E r, q \in Reqs :
        /\ r # q
        /\ Redirected(r)
        /\ pc[q] = "put_item"
        /\ calls[q] = <<>>

=============================================================================
